---- MODULE Spec2Model ----
(***************************************************************************)
(* Model of autospec/verify_sign.py: the verifier dispatcher (from_url,    *)
(* from_disk, get_verifier), the GPG signature strategy                    *)
(* (GPGVerifier.verify and its helpers), the fetcher (attempt_to_download) *)
(* and the two signature-engine backends (verify_cli, verify_gpgme).       *)
(*                                                                         *)
(* Text is modelled as sequences of one-character strings so that the      *)
(* path and output parsing of the source is computed, not assumed.         *)
(***************************************************************************)
EXTENDS Integers, Sequences, FiniteSets, TLC

\* ------------------------------------------------------------------ bounds

\* Number of entry-point calls (from_url, from_disk, direct engine calls)
\* in one behaviour.
MaxRuns == 2

\* ------------------------------------------------------------ text helpers

None == <<"None">>

\* Python s[a:b] with 0-based a, b (0 <= a).
Slice(s, a, b) == SubSeq(s, a + 1, IF b > Len(s) THEN Len(s) ELSE b)

\* Python s[a:]
SliceFrom(s, a) == SubSeq(s, a + 1, Len(s))

\* Python s.find(sub): 0-based index of the first occurrence, -1 if none.
Find(s, sub) ==
    LET hits == { i \in 0..(Len(s) - Len(sub)) : Slice(s, i, i + Len(sub)) = sub }
    IN IF hits = {} THEN -1 ELSE CHOOSE i \in hits : \A j \in hits : i <= j

\* Python s.rfind(ch) for a one-character ch: 0-based, -1 if none.
RFind(s, ch) ==
    LET hits == { i \in 0..(Len(s) - 1) : s[i + 1] = ch }
    IN IF hits = {} THEN -1 ELSE CHOOSE i \in hits : \A j \in hits : i >= j

Whitespace == {" ", "\n", "\t"}

\* Python s.strip()
RECURSIVE LStrip(_)
LStrip(s) == IF s # <<>> /\ Head(s) \in Whitespace THEN LStrip(Tail(s)) ELSE s
RECURSIVE RStrip(_)
RStrip(s) ==
    IF s # <<>> /\ s[Len(s)] \in Whitespace THEN RStrip(SubSeq(s, 1, Len(s) - 1)) ELSE s
Strip(s) == RStrip(LStrip(s))

\* Python s.upper() on the alphabet used by the model.
UpperChar(c) ==
    CASE c = "a" -> "A" [] c = "b" -> "B" [] c = "c" -> "C" [] c = "d" -> "D"
      [] c = "e" -> "E" [] c = "f" -> "F" [] OTHER -> c
Upper(s) == [i \in 1..Len(s) |-> UpperChar(s[i])]

\* Python s.replace(sub, new) for a non-empty sub: every occurrence, left
\* to right, without overlap.
RECURSIVE ReplaceAll(_, _, _)
ReplaceAll(s, sub, new) ==
    LET k == Find(s, sub)
    IN IF k = -1 THEN s
       ELSE Slice(s, 0, k) \o new \o ReplaceAll(SliceFrom(s, k + Len(sub)), sub, new)

Digits == {"0", "1", "2", "3", "4", "5", "6", "7", "8", "9"}

\* The 0-based [start, end) spans of the matches of the pattern '-\d+\.'
\* in s: a dash, the longest run of digits after it (at least one), a dot.
VersionDelimiters(s) ==
    {m \in (0..(Len(s) - 1)) \X (1..Len(s)) :
        /\ m[1] + 3 <= m[2]
        /\ s[m[1] + 1] = "-"
        /\ \A k \in (m[1] + 2)..(m[2] - 1) : s[k] \in Digits
        /\ s[m[2]] = "."}

\* re.split('-\d+\.', s): the pieces of s between the matches.
RECURSIVE re_split_from(_, _)
re_split_from(s, offset) ==
    LET ms == {m \in VersionDelimiters(s) : m[1] >= offset}
    IN IF ms = {} THEN <<SliceFrom(s, offset)>>
       ELSE LET m == CHOOSE x \in ms : \A y \in ms : x[1] <= y[1]
            IN <<Slice(s, offset, m[1])>> \o re_split_from(s, m[2])

re_split_version(s) == re_split_from(s, 0)

\* ------------------------------------------------------------ path helpers

\* os.path.basename
basename(p) == SliceFrom(p, RFind(p, "/") + 1)

\* os.path.join(a, b)
path_join(a, b) ==
    IF b # <<>> /\ Head(b) = "/" THEN b
    ELSE IF a = <<>> \/ a[Len(a)] = "/" THEN a \o b
    ELSE a \o <<"/">> \o b

\* os.path.splitext(p)[1]: the text from the last dot of the last path
\* component, unless that component has only leading dots before it.
get_file_ext(filename) ==
    LET sepIndex == RFind(filename, "/")
        dotIndex == RFind(filename, ".")
    IN IF dotIndex > sepIndex
          /\ \E k \in (sepIndex + 1)..(dotIndex - 1) : filename[k + 1] # "."
       THEN SliceFrom(filename, dotIndex)
       ELSE <<>>

\* filename_from_url
filename_from_url(url) == basename(url)

\* ---------------------------------------------------------------- dispatch

ExtGz  == <<".", "g", "z">>
ExtGem == <<".", "g", "e", "m">>
ExtAsc == <<".", "a", "s", "c">>

\* VERIFIER_TYPES with the GPG strategy as the default for unknown extensions.
VERIFIER_TYPES_default_gpg(ext) ==
    IF ext = ExtGem THEN "GEMShaVerifier" ELSE "GPGVerifier"

\* VERIFIER_TYPES.get(ext, None)
VERIFIER_TYPES(ext) ==
    IF ext = ExtGz THEN "GPGVerifier"
    ELSE IF ext = ExtGem THEN "GEMShaVerifier"
    ELSE "None"

get_verifier(filename) == VERIFIER_TYPES(get_file_ext(filename))

\* ------------------------------------------------- key identifier extractor

kw_keyid      == <<"k", "e", "y", "i", "d">>
kw_keyid_sp   == <<"k", "e", "y", "i", "d", " ">>

\* What `gpg --list-packet <file>` writes for a signature file, by the
\* file's content: standard error and standard output.
ListerResult(content) ==
    CASE content = "sig_ab" ->
           [err |-> <<>>, out |-> <<"x", " ", "k", "e", "y", "i", "d", " ", "a", "b", "\n">>]
      [] content = "sig_AB" ->
           [err |-> <<>>, out |-> <<"k", "e", "y", "i", "d", " ", " ", "A", "B", " ", "\n", "z">>]
      [] content = "sig_cd" ->
           [err |-> <<>>, out |-> <<"k", "e", "y", "i", "d", " ", "c", "d", "\n">>]
      [] content = "sig_nokeyid" ->
           [err |-> <<>>, out |-> <<"s", "i", "g", "\n">>]
      [] content = "sig_nonewline" ->
           [err |-> <<>>, out |-> <<"k", "e", "y", "i", "d", " ", "a", "b">>]
      [] OTHER ->   \* empty or truncated data: gpg reports on standard error
           [err |-> <<"g", "p", "g", ":", "\n">>, out |-> <<>>]

\* Contents a signature file can have (what a server can send with 200, or
\* what is on disk before the first run).
SigContents == {"sig_ab", "sig_AB", "sig_cd", "sig_nokeyid", "sig_nonewline", "empty"}

\* parse_keyid.  With the native binding imported (GPG_CLI false) the names
\* Popen and PIPE were never imported, so the call raises NameError.
\* Result: [exc, val]; exc = "none" when it returns, val = None for `None`.
parse_keyid(gpg_cli, content) ==
    IF ~gpg_cli THEN [exc |-> "NameError", val |-> None]
    ELSE
    LET r  == ListerResult(content)
        k  == Find(r.out, kw_keyid)
        ai == k + Len(kw_keyid_sp)
        n  == Find(SliceFrom(r.out, ai), <<"\n">>)
        bi == ai + n
    IN IF r.err # <<>> THEN [exc |-> "none", val |-> None]
       ELSE IF k = -1 THEN [exc |-> "ValueError", val |-> None]
       ELSE IF n = -1 THEN [exc |-> "ValueError", val |-> None]
       ELSE [exc |-> "none", val |-> Strip(Slice(r.out, ai, bi))]

\* get_keyid: parse_keyid(...).upper(); None has no upper().
get_keyid(gpg_cli, content) ==
    LET p == parse_keyid(gpg_cli, content)
    IN IF p.exc # "none" THEN p
       ELSE IF p.val = None THEN [exc |-> "AttributeError", val |-> None]
       ELSE [exc |-> "none", val |-> Upper(p.val)]

\* The path GPGVerifier.get_pubkey_path builds for a key identifier.
pubkey_path(keyid) == <<"keyring", "/">> \o keyid \o <<".", "pkey">>

\* ------------------------------------------------------------------ fetcher

\* A fetch result: the None sentinel or an HTTP status code.
NoCode == [none |-> TRUE, n |-> 0]
HttpCode(n) == [none |-> FALSE, n |-> n]

\* attempt_to_download(url, sign_filename) on the file table `fs`.
\* `curl` is what the transfer does: [setopt_raises, error, code, body].
\* open(..., 'wb') creates or truncates the destination first; a transport
\* error returns None from inside the with-block; a status other than 200
\* unlinks the destination.  Result: [fs, code, exc].
attempt_to_download(fs, dest, curl) ==
    LET opened == [p \in (DOMAIN fs) \cup {dest} |-> IF p = dest THEN "empty" ELSE fs[p]]
        written == [opened EXCEPT ![dest] = curl.body]
    IN IF curl.setopt_raises
       THEN [fs |-> opened, code |-> NoCode, exc |-> "TypeError"]
       ELSE IF curl.error
       THEN [fs |-> opened, code |-> NoCode, exc |-> "none"]
       ELSE IF curl.code # 200
       THEN [fs |-> [p \in (DOMAIN written) \ {dest} |-> written[p]],
             code |-> HttpCode(curl.code), exc |-> "none"]
       ELSE [fs |-> written, code |-> HttpCode(curl.code), exc |-> "none"]

\* Transfers the model draws from: a transport error, 404 and 200 with each
\* signature content.
CurlResults ==
    {[setopt_raises |-> FALSE, error |-> TRUE, code |-> 0, body |-> "empty"],
     [setopt_raises |-> FALSE, error |-> FALSE, code |-> 404, body |-> "empty"]}
    \cup {[setopt_raises |-> FALSE, error |-> FALSE, code |-> 200, body |-> c] :
             c \in SigContents}

\* What curl can do for a URL.  With no URL (None) the transfer cannot
\* start: setopt raises TypeError or perform fails with a transport error,
\* depending on the pycurl build.
CurlFor(url) ==
    IF url = None
    THEN {[setopt_raises |-> b, error |-> TRUE, code |-> 0, body |-> "empty"] :
             b \in BOOLEAN}
    ELSE CurlResults

\* --------------------------------------------------------- signature engine

Unset == <<"unset", 0>>
TmpDir(n) == <<"tmp.gpghome", n>>
CallerHome == <<"G", 0>>
UserHome == <<"U", 0>>
KeyFile == <<"K">>

NullStatus == [null |-> TRUE, strerror |-> ""]
ErrStatus(text) == [null |-> FALSE, strerror |-> text]

\* The part of the process and disk state an engine call works on, with a
\* log of the call: the sub-commands run (cmds), the directories it created
\* with mkdtemp (created) and the values it stored in GNUPGHOME (installed).
\* e = [dirs, environ, tmp, cmds, created, installed]

\* tempfile.mkdtemp(prefix='tmp.gpghome'): a fresh directory.
mkdtemp(e) ==
    [e EXCEPT !.tmp = @ + 1,
              !.dirs = @ \cup {TmpDir(e.tmp + 1)},
              !.created = @ \cup {TmpDir(e.tmp + 1)}]

\* GPGCli.__init__ without the check of the import's exit code.
GPGCli_init_unchecked(e, pubkey, home, imp) ==
    IF pubkey = None THEN [e |-> e, raised |-> FALSE, err |-> ""]
    ELSE
    LET e1 == IF home = None THEN mkdtemp(e) ELSE e
        gh == IF home = None THEN TmpDir(e.tmp + 1) ELSE home
        e2 == [e1 EXCEPT !.environ = gh,
                         !.installed = @ \cup {gh},
                         !.cmds = Append(@, "import")]
    IN [e |-> e2, raised |-> FALSE, err |-> ""]

\* GPGCli.__init__(pubkey, home); imp = [code, err] is the result of
\* `gpg --import pubkey`.
GPGCli_init(e, pubkey, home, imp) ==
    IF pubkey = None THEN [e |-> e, raised |-> FALSE, err |-> ""]
    ELSE
    LET e1 == IF home = None THEN mkdtemp(e) ELSE e
        gh == IF home = None THEN TmpDir(e.tmp + 1) ELSE home
        e2 == [e1 EXCEPT !.environ = gh,
                         !.installed = @ \cup {gh},
                         !.cmds = Append(@, "import")]
    IN [e |-> e2, raised |-> imp.code # 0, err |-> imp.err]

\* GPGCli.verify; ver = [code, err] is the result of `gpg --verify sig tar`.
GPGCli_verify(e, ver) ==
    [e |-> [e EXCEPT !.cmds = Append(@, "verify")],
     status |-> IF ver.code = 0 THEN NullStatus ELSE ErrStatus(ver.err)]

\* cli_gpg_ctx, the part before the yield.
cli_gpg_ctx_enter(e, pubkey, gpghome, imp) ==
    IF pubkey = None THEN GPGCli_init(e, None, None, imp) @@ [gh |-> None]
    ELSE
    LET e1 == IF gpghome = None THEN mkdtemp(e) ELSE e
        gh == IF gpghome = None THEN TmpDir(e.tmp + 1) ELSE gpghome
    IN GPGCli_init(e1, pubkey, gh, imp) @@ [gh |-> gh]

\* cli_gpg_ctx's finally block with the cleanup done for every keyring
\* directory, supplied or temporary.
cli_gpg_ctx_exit_unconditional(e, pubkey, gpghome, gh) ==
    IF pubkey # None
    THEN [e EXCEPT !.environ = Unset, !.dirs = @ \ {gh}]
    ELSE e

\* cli_gpg_ctx, the finally block (only on the explicit-pubkey branch).
cli_gpg_ctx_exit(e, pubkey, gpghome, gh) ==
    IF pubkey # None /\ gpghome = None
    THEN [e EXCEPT !.environ = Unset, !.dirs = @ \ {gh}]
    ELSE e

\* verify_cli(pubkey, tarball, signature, gpghome).
\* Result: [e, outcome, status, exc].
verify_cli(e, pubkey, gpghome, imp, ver) ==
    LET ent == cli_gpg_ctx_enter(e, pubkey, gpghome, imp)
        body == IF ent.raised
                THEN [e |-> ent.e, outcome |-> "raised", status |-> NullStatus,
                      exc |-> ent.err]
                ELSE LET r == GPGCli_verify(ent.e, ver)
                     IN [e |-> r.e, outcome |-> "returned", status |-> r.status,
                         exc |-> ""]
    IN [body EXCEPT !.e = cli_gpg_ctx_exit(body.e, pubkey, gpghome, ent.gh)]

\* gpg_ctx, the part before the yield; g is what the native binding does:
\* "open_fails", "import_fails", "verify_raises", "good" or "bad".
gpg_ctx_enter(e, pubkey, gpghome, g) ==
    IF pubkey = None THEN [e |-> e, raised |-> FALSE, err |-> "", gh |-> None]
    ELSE
    LET e1 == mkdtemp(e)
        gh == TmpDir(e.tmp + 1)
        e2 == [e1 EXCEPT !.environ = gh,
                         !.installed = @ \cup {gh},
                         !.cmds = Append(@, "import")]
    IN [e |-> e2, raised |-> g = "import_fails", err |-> "import failed", gh |-> gh]

\* gpg_ctx, the finally block (only on the explicit-pubkey branch).
gpg_ctx_exit(e, pubkey, gpghome, gh) ==
    IF pubkey # None /\ gpghome = None
    THEN [e EXCEPT !.environ = Unset, !.dirs = @ \ {gh}]
    ELSE e

\* verify_gpgme(pubkey, tarball, signature, gpghome).
verify_gpgme(e, pubkey, gpghome, g) ==
    IF g = "open_fails"
    THEN [e |-> e, outcome |-> "raised", status |-> NullStatus, exc |-> "IOError"]
    ELSE
    LET ent == gpg_ctx_enter(e, pubkey, gpghome, g)
        ev == [ent.e EXCEPT !.cmds = Append(@, "verify")]
        body == IF ent.raised
                THEN [e |-> ent.e, outcome |-> "raised", status |-> NullStatus,
                      exc |-> ent.err]
                ELSE IF g = "verify_raises"
                THEN [e |-> ev, outcome |-> "raised", status |-> NullStatus,
                      exc |-> "GpgmeError"]
                ELSE [e |-> ev, outcome |-> "returned",
                      status |-> IF g = "good" THEN NullStatus
                                 ELSE ErrStatus("Bad signature"),
                      exc |-> ""]
    IN [body EXCEPT !.e = gpg_ctx_exit(body.e, pubkey, gpghome, ent.gh)]

\* Results of the external tool the model draws from.
ImportResults == {[code |-> 0, err |-> ""], [code |-> 2, err |-> "gpg: no valid OpenPGP data found."]}
VerifyResults == {[code |-> 0, err |-> ""], [code |-> 1, err |-> "gpg: BAD signature"]}
GpgmeResults == {"open_fails", "import_fails", "verify_raises", "good", "bad"}

\* The backend chosen by the module-level GPG_CLI flag; x carries the
\* results of the external tool or binding: [imp, ver, g].
sign_engine(gpg_cli, e, pubkey, gpghome, x) ==
    IF gpg_cli THEN verify_cli(e, pubkey, gpghome, x.imp, x.ver)
    ELSE verify_gpgme(e, pubkey, gpghome, x.g)

\* The tool results that matter to the chosen backend (the others are held
\* at a fixed value so that one call is not counted several times).
EngineInputs(gpg_cli) ==
    IF gpg_cli
    THEN {[imp |-> i, ver |-> w, g |-> "good"] : i \in ImportResults, w \in VerifyResults}
    ELSE {[imp |-> [code |-> 0, err |-> ""], ver |-> [code |-> 0, err |-> ""], g |-> g] :
             g \in GpgmeResults}

\* ------------------------------------------------------------------- inputs

p_d        == <<"d">>
u_a_gz     == <<"u", "/", "a", ".", "g", "z">>
u_a_zip    == <<"u", "/", "a", ".", "z", "i", "p">>
u_a_gem    == <<"u", "/", "a", ".", "g", "e", "m">>
u_dot_gz   == <<"u", "/", ".", "g", "z">>
d_a_gz     == <<"d", "/", "a", ".", "g", "z">>
d_b_gz     == <<"d", "/", "b", ".", "g", "z">>
d_a_gem    == <<"d", "/", "a", ".", "g", "e", "m">>
d_a_zip    == <<"d", "/", "a", ".", "z", "i", "p">>
d_a_GZ     == <<"d", "/", "a", ".", "G", "Z">>
dgz_a      == <<"d", ".", "g", "z", "/", "a">>
d_s        == <<"d", "/", "s">>
u_b20_gem  == <<"u", "/", "b", "-", "2", ".", "0", ".", "g", "e", "m">>
d_b20_gem  == <<"d", "/", "b", "-", "2", ".", "0", ".", "g", "e", "m">>

Urls          == {u_a_gz, u_a_zip, u_a_gem, u_dot_gz, u_b20_gem}
DownloadPaths == {p_d}
DiskPaths     == {d_a_gz, d_b_gz, d_a_gem, d_a_zip, d_a_GZ, dgz_a, d_b20_gem}
PackageChecks == {None, d_s}

\* Key files the keyring directory may hold.
KeyIds == {<<"A", "B">>, <<"a", "b">>}

\* ------------------------------------------------------------------- state

VARIABLES
    GPG_CLI,    \* module flag: TRUE when `import gpgme` failed at start-up
    files,      \* regular files on disk: path -> content
    keyring,    \* paths of the key files under keyring/
    dirs,       \* keyring-home directories on disk
    environ,    \* os.environ['GNUPGHOME'], or Unset
    tmp,        \* number of mkdtemp calls so far
    runs,       \* number of entry-point calls so far
    pc,         \* position of the current call
    entry,      \* the current call: [fn, arg, check]
    v,          \* the verifier instance: [cls, url, package_sign_path, key_url, package_path]
    pub_key,    \* verify's local pub_key
    out,        \* lines printed by the current call
    ret,        \* what the current call returned: "pending", "None", "True", "False"
    raised,     \* the exception that escaped the current call, or "none"
    calls,      \* collaborators invoked by the current call, in order
    pre,        \* the files on disk when the current call started
    eng,        \* the signature-engine call of the current call
    fetch,      \* the fetcher call of the current call
    gem,        \* the registry-digest verification of the current call
    origin      \* where each file on disk comes from

vars == <<GPG_CLI, files, keyring, dirs, environ, tmp, runs, pc, entry, v, pub_key,
          out, ret, raised, calls, pre, eng, fetch, gem, origin>>

NoVerifier == [cls |-> "None", url |-> None, package_sign_path |-> None,
               key_url |-> None, package_path |-> None]

NoEngine == [called |-> FALSE, pubkey |-> None, gpghome |-> None, cmds |-> <<>>,
             created |-> {}, installed |-> {}, outcome |-> "none",
             status |-> NullStatus, exc |-> "",
             x |-> [imp |-> [code |-> 0, err |-> ""], ver |-> [code |-> 0, err |-> ""],
                    g |-> "good"]]

NoFetch == [called |-> FALSE, transport_error |-> FALSE, dest |-> None,
            code |-> NoCode, exc |-> "none"]

InitFiles(pkg, sig) ==
    LET dom == (IF pkg THEN {d_a_gz} ELSE {}) \cup
               (IF sig # "absent" THEN {d_a_gz \o ExtAsc} ELSE {})
    IN [p \in dom |-> IF p = d_a_gz THEN "pkg" ELSE sig]

\* The .gem archive on disk, if any.
InitGem(present) == IF present THEN (d_b20_gem :> "gem") ELSE <<>>

NoGem == [called |-> FALSE, resp |-> [kind |-> "list", gems |-> <<>>],
          queried |-> FALSE, name |-> None, number |-> None]

Init ==
    /\ GPG_CLI \in BOOLEAN
    /\ \E pkg \in BOOLEAN, sig \in {"absent"} \cup SigContents, g \in BOOLEAN :
          files = InitFiles(pkg, sig) @@ InitGem(g)
    /\ \E ks \in SUBSET KeyIds : keyring = {pubkey_path(k) : k \in ks}
    /\ dirs = {CallerHome, UserHome}
    /\ environ \in {Unset, UserHome}
    /\ tmp = 0
    /\ runs = 0
    /\ pc = "idle"
    /\ entry = [fn |-> "none", arg |-> None, check |-> None]
    /\ v = NoVerifier
    /\ pub_key = None
    /\ out = <<>>
    /\ ret = "pending"
    /\ raised = "none"
    /\ calls = <<>>
    /\ pre = files
    /\ eng = NoEngine
    /\ fetch = NoFetch
    /\ gem = NoGem
    /\ origin = [p \in DOMAIN files |-> "initial"]

\* ---------------------------------------------------------------- printing

Line(fn, by, msg) == [fn |-> fn, by |-> by, msg |-> msg]

SEPT == Line("print", "Verifier", <<"----">>)

\* print_success / print_error / print called directly
print_success(by, msg) == Line("print_success", by, msg)
print_error(by, msg) == Line("print_error", by, msg)

\* Verifier.print_result(result, err_msg) for an instance with this url;
\* `truthy` is the truth value of the result argument.
print_result(url, truthy, err_msg) ==
    LET package_name == IF url # None THEN basename(url) ELSE <<>>
    IN IF truthy
       THEN print_success("print_result", package_name \o <<" verification was successful">>)
       ELSE print_error("print_result",
                        package_name \o <<" verification failed ">> \o err_msg)

CodeText(code) == IF code.none THEN "None" ELSE ToString(code.n)

\* --------------------------------------------------------------- constructors

kwargs_get(kw, k) == IF k \in DOMAIN kw THEN kw[k] ELSE None

\* GPGVerifier.__init__(**kwargs) (with Verifier.__init__)
GPGVerifier_init(kw) ==
    LET url == kwargs_get(kw, "url")
        psp == kwargs_get(kw, "package_sign_path")
        ku  == kwargs_get(kw, "key_url")
        pp  == kwargs_get(kw, "package_path")
    IN [cls |-> "GPGVerifier",
        url |-> url,
        key_url |-> IF ku = None /\ url # None THEN url \o ExtAsc ELSE ku,
        package_path |-> pp,
        package_sign_path |-> IF psp = None THEN pp \o ExtAsc ELSE psp]

\* An attribute that was never assigned on the instance.
NoAttr == <<"no attribute">>

\* GEMShaVerifier.__init__(**kwargs): Verifier.__init__ only; key_url and
\* package_path are not stored on the instance.
GEMShaVerifier_init(kw) ==
    [cls |-> "GEMShaVerifier",
     url |-> kwargs_get(kw, "url"),
     key_url |-> NoAttr,
     package_path |-> NoAttr,
     package_sign_path |-> kwargs_get(kw, "package_sign_path")]

Construct(cls, kw) ==
    IF cls = "GPGVerifier" THEN GPGVerifier_init(kw) ELSE GEMShaVerifier_init(kw)

\* ------------------------------------------------------------ entry points

CanStart == pc \in {"idle", "done"} /\ runs < MaxRuns

\* What every entry-point call resets: the record of the previous call.
StartRun(fn, arg, check) ==
    /\ runs' = runs + 1
    /\ entry' = [fn |-> fn, arg |-> arg, check |-> check]
    /\ pre' = files
    /\ calls' = <<>>
    /\ raised' = "none"
    /\ pub_key' = None
    /\ fetch' = NoFetch
    /\ gem' = NoGem
    /\ UNCHANGED <<GPG_CLI, files, keyring, origin>>

\* The dispatch shared by from_url and from_disk: `filename` is what is
\* handed to get_verifier, `kw` the constructor's keyword arguments and
\* `refusal` the line printed for an unknown extension.
Dispatch(filename, kw, refusal) ==
    LET verifier == get_verifier(filename)
    IN IF verifier = "None"
       THEN /\ v' = NoVerifier
            /\ out' = <<refusal>>
            /\ ret' = "None"
            /\ pc' = "done"
       ELSE /\ v' = Construct(verifier, kw)
            /\ out' = <<SEPT>>
            /\ ret' = "pending"
            /\ pc' = IF verifier = "GPGVerifier" THEN "verify" ELSE "gem_verify"

\* from_url(url, download_path), up to the call of v.verify()
from_url(url, download_path) ==
    /\ CanStart
    /\ StartRun("from_url", url, download_path)
    /\ LET package_name == filename_from_url(url)
           package_path == path_join(download_path, package_name)
       IN Dispatch(package_name,
                   [package_path |-> package_path, url |-> url],
                   print_error("from_url",
                               <<"File ">> \o package_name \o <<" is not verifiable (yet)">>))
    /\ eng' = NoEngine
    /\ UNCHANGED <<dirs, environ, tmp>>

\* from_disk(package_path, package_check), up to the call of v.verify()
from_disk(package_path, package_check) ==
    /\ CanStart
    /\ StartRun("from_disk", package_path, package_check)
    /\ Dispatch(package_path,
                [package_path |-> package_path, package_check |-> package_check],
                Line("print", "from_disk",
                     <<"File ">> \o package_path \o <<" is not verifiable">>))
    /\ eng' = NoEngine
    /\ UNCHANGED <<dirs, environ, tmp>>

\* ------------------------------------------------------- GPGVerifier.verify

\* The signature test answering "missing" whatever is on disk.
sign_missing_always(fs, sign_path) == TRUE

\* os.path.exists(self.package_sign_path) is False (line 199)
sign_missing(fs, sign_path) == sign_path \notin DOMAIN fs

\* The keyring test answering "present" whatever the keyring holds.
key_missing_never(kr, pub) == FALSE

\* os.path.exists(pub_key) is False (line 203)
key_missing(kr, pub) == pub \notin kr

\* The report taking the success branch for every status.
report_status_always_true(url, package_path, status) ==
    [line |-> print_result(url, package_path # <<>>, <<>>), ret |-> "True"]

\* verify, lines 211-215: what is printed and returned for the engine's
\* status.  Result: [line, ret].
report_status(url, package_path, status) ==
    IF status.null
    THEN [line |-> print_result(url, package_path # <<>>, <<>>), ret |-> "True"]
    ELSE [line |-> print_result(url, FALSE, <<status.strerror>>), ret |-> "None"]

\* The artifact test answering "present" whatever is on disk.
package_missing_never(fs, package_path) == FALSE

\* os.path.exists(self.package_path) is False (line 196)
package_missing(fs, package_path) == package_path \notin DOMAIN fs

\* The missing-artifact branch returning without a report.
missing_artifact_lines_silent(url, package_path) == <<>>

\* verify, line 197: what is printed when the package file is absent.
missing_artifact_lines(url, package_path) ==
    <<print_result(url, FALSE, package_path \o <<" not found">>)>>

\* verify, lines 195-199: the artifact check and the test for a local
\* signature file.
verify_locate ==
    /\ pc = "verify"
    /\ IF package_missing(files, v.package_path)
       THEN /\ out' = out \o <<Line("print", "verify", <<"Performing GPG signature verification for package">>)>>
                          \o missing_artifact_lines(v.url, v.package_path)
            /\ ret' = "None"
            /\ pc' = "done"
       ELSE /\ out' = Append(out, Line("print", "verify", <<"Performing GPG signature verification for package">>))
            /\ ret' = ret
            /\ pc' = IF sign_missing(files, v.package_sign_path) THEN "get_sign" ELSE "get_pubkey"
    /\ UNCHANGED <<GPG_CLI, files, keyring, dirs, environ, tmp, runs, entry, v, pub_key,
                   raised, calls, pre, eng, fetch, gem, origin>>

\* get_sign (with Verifier.download_file) and verify's lines 199-201.
get_sign ==
    /\ pc = "get_sign"
    /\ \E curl \in CurlFor(v.key_url) :
         LET r == attempt_to_download(files, v.package_sign_path, curl)
         IN /\ calls' = Append(calls, "fetch")
            /\ fetch' = [called |-> TRUE,
                         transport_error |-> curl.error /\ ~curl.setopt_raises,
                         dest |-> v.package_sign_path, code |-> r.code, exc |-> r.exc]
            /\ files' = r.fs
            /\ origin' = [p \in DOMAIN r.fs |->
                             IF p # v.package_sign_path THEN origin[p]
                             ELSE IF r.exc = "none" /\ r.code = HttpCode(200)
                                  THEN "fetch_200" ELSE "fetch_failed"]
            /\ raised' = r.exc
            /\ IF r.exc # "none"
               THEN /\ out' = out
                    /\ ret' = ret
                    /\ pc' = "done"
               ELSE IF ~r.code.none /\ r.code.n = 200
               THEN /\ out' = out
                    /\ ret' = ret
                    /\ pc' = "get_pubkey"
               ELSE /\ out' = out \o
                         <<print_error("get_sign",
                              <<"Unable to download file ">> \o v.key_url
                                \o <<" http code ", CodeText(r.code)>>),
                           print_result(v.url, FALSE,
                              v.package_sign_path \o <<" not found">>)>>
                    /\ ret' = "None"
                    /\ pc' = "done"
    /\ UNCHANGED <<GPG_CLI, keyring, dirs, environ, tmp, runs, entry, v, pub_key, pre, eng,
                   gem>>

\* verify, lines 202-206: get_pubkey_path and the keyring lookup.
get_pubkey ==
    /\ pc = "get_pubkey"
    /\ LET k == get_keyid(GPG_CLI, files[v.package_sign_path])
       IN /\ calls' = IF k.exc = "none" /\ key_missing(keyring, pubkey_path(k.val))
                      THEN calls \o <<"get_keyid", "get_keyid">>
                      ELSE Append(calls, "get_keyid")
          /\ IF k.exc # "none"
             THEN /\ raised' = k.exc
                  /\ out' = out
                  /\ ret' = ret
                  /\ pub_key' = pub_key
                  /\ pc' = "done"
             ELSE /\ raised' = raised
                  /\ pub_key' = pubkey_path(k.val)
                  /\ IF key_missing(keyring, pubkey_path(k.val))
                     THEN /\ out' = Append(out,
                                 print_result(v.url, FALSE,
                                    <<"Public key ">> \o k.val \o <<" not found in keyring">>))
                          /\ ret' = "None"
                          /\ pc' = "done"
                     ELSE /\ out' = out
                          /\ ret' = ret
                          /\ pc' = "engine"
    /\ UNCHANGED <<GPG_CLI, files, keyring, dirs, environ, tmp, runs, entry, v, pre, eng,
                   fetch, gem, origin>>

\* The engine call's working state taken from the process and disk state.
EngineState == [dirs |-> dirs, environ |-> environ, tmp |-> tmp,
                cmds |-> <<>>, created |-> {}, installed |-> {}]

EngineRecord(pubkey, gpghome, x, r) ==
    [called |-> TRUE, pubkey |-> pubkey, gpghome |-> gpghome, cmds |-> r.e.cmds,
     created |-> r.e.created, installed |-> r.e.installed, outcome |-> r.outcome,
     status |-> r.status, exc |-> r.exc, x |-> x]

\* verify, lines 207-215: the engine call and the report of its status.
verify_engine ==
    /\ pc = "engine"
    /\ \E x \in EngineInputs(GPG_CLI) :
         LET r == sign_engine(GPG_CLI, EngineState, pub_key, None, x)
         IN /\ dirs' = r.e.dirs
            /\ environ' = r.e.environ
            /\ tmp' = r.e.tmp
            /\ eng' = EngineRecord(pub_key, None, x, r)
            /\ calls' = Append(calls, "engine")
            /\ IF r.outcome = "raised"
               THEN /\ raised' = "Exception"
                    /\ out' = out
                    /\ ret' = ret
               ELSE LET rep == report_status(v.url, v.package_path, r.status)
                    IN /\ raised' = raised
                       /\ out' = Append(out, rep.line)
                       /\ ret' = rep.ret
    /\ pc' = "done"
    /\ UNCHANGED <<GPG_CLI, files, keyring, runs, entry, v, pub_key, pre, fetch, gem,
                   origin>>

\* A call of the engine function of the active backend by another caller,
\* with any combination of the pubkey and gpghome arguments.
engine_call(pubkey, gpghome) ==
    /\ CanStart
    /\ StartRun("engine", pubkey, gpghome)
    /\ \E x \in EngineInputs(GPG_CLI) :
         LET r == sign_engine(GPG_CLI, EngineState, pubkey, gpghome, x)
         IN /\ dirs' = r.e.dirs
            /\ environ' = r.e.environ
            /\ tmp' = r.e.tmp
            /\ eng' = EngineRecord(pubkey, gpghome, x, r)
            /\ ret' = IF r.outcome = "raised" THEN "pending"
                      ELSE IF r.status.null THEN "None" ELSE "status"
    /\ v' = NoVerifier
    /\ out' = <<>>
    /\ pc' = "done"

\* ---------------------------------------------------- GEMShaVerifier.verify

V20 == <<"2", ".", "0">>

\* GEMShaVerifier.calc_sha: the SHA-256 hex digest of a file's content.
calc_sha(content) == <<"sha256", content>>

\* What the registry answers: a transport failure, a body that is not
\* JSON, a JSON object, or a JSON list of releases [number, sha].
RegistryResponses ==
    {[kind |-> "transport_error", gems |-> <<>>],
     [kind |-> "invalid_json", gems |-> <<>>],
     [kind |-> "object", gems |-> <<>>],
     [kind |-> "list", gems |-> <<>>],
     [kind |-> "list", gems |-> <<[number |-> V20, sha |-> calc_sha("gem")]>>],
     [kind |-> "list", gems |-> <<[number |-> V20, sha |-> calc_sha("other")]>>],
     [kind |-> "list", gems |-> <<[number |-> V20, sha |-> calc_sha("gem")],
                                  [number |-> V20, sha |-> calc_sha("gem")]>>]}

\* GEMShaVerifier.get_rubygems_info: curl.perform and json.loads, neither
\* guarded.  Result: [exc, val].
get_rubygems_info(resp) ==
    IF resp.kind = "transport_error" THEN [exc |-> "pycurl.error", val |-> resp]
    ELSE IF resp.kind = "invalid_json" THEN [exc |-> "JSONDecodeError", val |-> resp]
    ELSE [exc |-> "none", val |-> resp]

\* GEMShaVerifier.get_gemnumber_sha(gems, number).  Iterating a JSON object
\* yields its keys (strings, which have no get).  Result: [exc, val].
get_gemnumber_sha(gems, number) ==
    IF gems.kind # "list" THEN [exc |-> "AttributeError", val |-> None]
    ELSE
    LET mygem == SelectSeq(gems.gems, LAMBDA g : g.number = number)
    IN IF Len(mygem) = 1 THEN [exc |-> "none", val |-> mygem[1].sha]
       ELSE [exc |-> "none", val |-> None]

\* GEMShaVerifier.verify for an instance [url, package_path] on the files
\* `fs`, with the registry answering `resp`.
\* Result: [exc, lines, ret, queried, name, number].
GEMShaVerifier_verify(inst, fs, resp) ==
    LET banner == Line("print", "verify", <<"Performing SHA256 checksum for package">>)
        stop(exc, q, nm, num) ==
            [exc |-> exc, lines |-> <<banner>>, ret |-> "pending", queried |-> q,
             name |-> nm, number |-> num]
    IN IF inst.package_path = NoAttr THEN stop("AttributeError", FALSE, None, None)
       ELSE
       LET gemname == ReplaceAll(basename(inst.package_path), ExtGem, <<>>)
           parts == re_split_version(inst.package_path)
       IN IF Len(parts) # 2 THEN stop("ValueError", FALSE, None, None)
          ELSE
          LET name == parts[1]
              number == ReplaceAll(gemname, name \o <<"-">>, <<>>)
              geminfo == get_rubygems_info(resp)
              gemsha == get_gemnumber_sha(geminfo.val, number)
          IN IF geminfo.exc # "none" THEN stop(geminfo.exc, TRUE, name, number)
             ELSE IF gemsha.exc # "none" THEN stop(gemsha.exc, TRUE, name, number)
             ELSE IF inst.package_path \notin DOMAIN fs
             THEN stop("FileNotFoundError", TRUE, name, number)
             ELSE LET same == gemsha.val = calc_sha(fs[inst.package_path])
                  IN [exc |-> "none",
                      lines |-> <<banner, print_result(inst.url, same, <<>>)>>,
                      ret |-> IF same THEN "True" ELSE "False",
                      queried |-> TRUE, name |-> name, number |-> number]

\* v.verify() for the registry-digest strategy.
gem_verify ==
    /\ pc = "gem_verify"
    /\ \E resp \in RegistryResponses :
         LET r == GEMShaVerifier_verify(v, files, resp)
         IN /\ out' = out \o r.lines
            /\ raised' = r.exc
            /\ ret' = r.ret
            /\ gem' = [called |-> TRUE, resp |-> resp, queried |-> r.queried,
                       name |-> r.name, number |-> r.number]
    /\ pc' = "done"
    /\ UNCHANGED <<GPG_CLI, files, keyring, dirs, environ, tmp, runs, entry, v, pub_key,
                   calls, pre, eng, fetch, origin>>

\* ------------------------------------------------------------ specification

Next ==
    \/ \E url \in Urls, download_path \in DownloadPaths : from_url(url, download_path)
    \/ \E package_path \in DiskPaths, package_check \in PackageChecks :
          from_disk(package_path, package_check)
    \/ verify_locate
    \/ get_sign
    \/ get_pubkey
    \/ verify_engine
    \/ \E pubkey \in {None, KeyFile}, gpghome \in {None, CallerHome} :
          engine_call(pubkey, gpghome)
    \/ gem_verify

Spec == Init /\ [][Next]_vars

\* ------------------------------------------------------------------ claims

Range(q) == {q[i] : i \in 1..Len(q)}

\* The canonical result lines of the current call.
FailedResults == {l \in Range(out) : l.by = "print_result" /\ l.fn = "print_error"}
SuccessResults == {l \in Range(out) : l.by = "print_result" /\ l.fn = "print_success"}

InGPGVerify == v.cls = "GPGVerifier" /\ entry.fn \in {"from_url", "from_disk"}
EngineInvoked == eng.called \/ "engine" \in Range(calls)

\* C1: in GPGVerifier.verify, when the key identifier extracted from the
\* signature has no key file in the keyring, verify has printed a failed
\* result, has not returned True, and the signature engine was not invoked.
C1_MissingKeyFailsWithoutEngine ==
    (InGPGVerify /\ pub_key # None /\ pub_key \notin keyring)
        => /\ pc = "done"
           /\ raised = "none"
           /\ FailedResults # {}
           /\ SuccessResults = {}
           /\ ret = "None"
           /\ ~EngineInvoked

C1_Witness ==
    /\ InGPGVerify /\ pc = "done"
    /\ pub_key = pubkey_path(<<"C", "D">>) /\ pub_key \notin keyring
    /\ FailedResults # {}

\* C2: after a signature-engine call with an explicit public key has
\* returned or raised, no temporary keyring directory created during the
\* call exists on disk (both backends, every pubkey/gpghome combination).
C2_TempDirsRemoved ==
    (eng.called /\ eng.pubkey # None) => (eng.created \cap dirs = {})

\* C3: a signature whose packet listing cannot be parsed (the lister wrote
\* to standard error, or its output has no 'keyid' field) ends verify with
\* a failed result; no exception escapes and the engine is not invoked.
Unparseable(content) ==
    \/ ListerResult(content).err # <<>>
    \/ Find(ListerResult(content).out, kw_keyid) = -1

C3_UnparseableSignatureFails ==
    (/\ InGPGVerify /\ pc = "done" /\ GPG_CLI
     /\ "get_keyid" \in Range(calls)
     /\ Unparseable(files[v.package_sign_path]))
        => /\ raised = "none"
           /\ FailedResults # {}
           /\ ~EngineInvoked

\* C4: when attempt_to_download hits a transport-level error, the
\* destination file does not exist afterwards and the call returned the
\* None sentinel without raising.
C4_TransportErrorLeavesNoFile ==
    (fetch.called /\ fetch.transport_error)
        => /\ fetch.dest \notin DOMAIN files
           /\ fetch.code = NoCode
           /\ fetch.exc = "none"

\* C5: in GPGVerifier.verify the fetcher is invoked if and only if the
\* package file exists and no file exists at the signature path; when it
\* is invoked and returns anything but status 200, verify prints a failed
\* result, does not return True, and neither key-id extraction nor the
\* signature engine runs.
C5_FetchOnlyWhenSignatureMissing ==
    InGPGVerify =>
        /\ fetch.called =>
              (v.package_path \in DOMAIN pre /\ v.package_sign_path \notin DOMAIN pre)
        /\ (pc \notin {"verify", "get_sign"}
            /\ v.package_path \in DOMAIN pre /\ v.package_sign_path \notin DOMAIN pre)
              => fetch.called
        /\ (fetch.called /\ fetch.exc = "none" /\ fetch.code # HttpCode(200))
              => /\ pc = "done"
                 /\ FailedResults # {}
                 /\ SuccessResults = {}
                 /\ ret = "None"
                 /\ "get_keyid" \notin Range(calls)
                 /\ ~EngineInvoked

C5_Witness ==
    /\ InGPGVerify /\ pc = "done"
    /\ fetch.called /\ fetch.code = HttpCode(404)
    /\ FailedResults # {}

\* C6: with package, signature and key file present, verify returns True
\* and prints the success line exactly when the engine returned a null
\* status; for a non-null status it prints the failed line carrying the
\* status's error text and does not return True.
C6_EngineStatusDecidesResult ==
    InGPGVerify =>
        /\ (eng.called /\ eng.outcome = "returned" /\ eng.status.null)
              => /\ ret = "True"
                 /\ out[Len(out)] \in SuccessResults
                 /\ FailedResults = {}
        /\ (eng.called /\ eng.outcome = "returned" /\ ~eng.status.null)
              => /\ ret # "True"
                 /\ SuccessResults = {}
                 /\ out[Len(out)] \in FailedResults
                 /\ out[Len(out)].msg[Len(out[Len(out)].msg)] = eng.status.strerror
        /\ (ret = "True" \/ SuccessResults # {})
              => (eng.called /\ eng.outcome = "returned" /\ eng.status.null)

C6_Witness ==
    /\ InGPGVerify /\ pc = "done" /\ eng.called /\ eng.outcome = "returned"
    /\ ~eng.status.null
    /\ FailedResults # {}

\* C7: the two backends are observably equivalent: for the signature file
\* a run extracts the key identifier from, the extraction step gives the
\* same result whether GPG_CLI is false or true, so that verify goes
\* through the same steps with either backend.
C7_BackendsTakeSameSteps ==
    (InGPGVerify /\ "get_keyid" \in Range(calls))
        => get_keyid(TRUE, files[v.package_sign_path])
             = get_keyid(FALSE, files[v.package_sign_path])

\* C8: get_verifier gives the GPG strategy for extension '.gz', the
\* registry-digest strategy for '.gem' and nothing for any other
\* extension; for an unknown extension from_url and from_disk return
\* without raising and without constructing a verifier instance.
DispatchedName ==
    IF entry.fn = "from_url" THEN filename_from_url(entry.arg) ELSE entry.arg

C8_DispatchByExtension ==
    entry.fn \in {"from_url", "from_disk"} =>
        LET ext == get_file_ext(DispatchedName)
        IN /\ ext = ExtGz => v.cls = "GPGVerifier"
           /\ ext = ExtGem => v.cls = "GEMShaVerifier"
           /\ ext \notin {ExtGz, ExtGem}
                => /\ v = NoVerifier
                   /\ pc = "done" /\ raised = "none" /\ ret = "None"
                   /\ SEPT \notin Range(out)
           /\ entry.arg \in {u_dot_gz, dgz_a, d_a_GZ, d_a_zip, u_a_zip} => v = NoVerifier
           /\ entry.arg \in {u_a_gz, d_a_gz, d_b_gz} => v.cls = "GPGVerifier"
           /\ entry.arg \in {u_a_gem, d_a_gem} => v.cls = "GEMShaVerifier"

C8_Witness ==
    /\ entry.fn = "from_disk" /\ entry.arg = dgz_a
    /\ pc = "done" /\ v = NoVerifier

\* C9: a GNUPGHOME override installed during a signature-engine call is
\* released when the call returns or raises: GNUPGHOME is then not set to
\* a keyring directory the call installed (both backends, every
\* pubkey/gpghome combination).
C9_EnvironmentReleased ==
    (eng.called /\ eng.pubkey # None) => environ \notin eng.installed

\* C10: in the sub-process backend, when the key import exits non-zero the
\* call raises an error carrying the import's standard-error text, the
\* verify sub-command is not run, and the temporary keyring created for
\* the call is deleted.
C10_ImportFailureIsFatal ==
    (GPG_CLI /\ eng.called /\ eng.pubkey # None /\ eng.x.imp.code # 0)
        => /\ eng.outcome = "raised"
           /\ eng.exc = eng.x.imp.err
           /\ eng.cmds = <<"import">>
           /\ eng.created \cap dirs = {}

C10_Witness ==
    /\ GPG_CLI /\ eng.called /\ eng.pubkey # None /\ eng.gpghome = None
    /\ eng.x.imp.code # 0
    /\ eng.created # {}
    /\ eng.outcome = "raised"

\* C11: a keyring directory supplied by the caller (gpghome) still exists
\* after a signature-engine call with an explicit public key has returned
\* or raised, in both backends.
C11_CallerHomeKept ==
    (eng.called /\ eng.pubkey # None /\ eng.gpghome # None) => eng.gpghome \in dirs

C11_Witness ==
    /\ eng.called /\ eng.pubkey # None /\ eng.gpghome = CallerHome
    /\ eng.outcome = "raised"
    /\ "import" \in Range(eng.cmds)
    /\ CallerHome \in dirs

\* The registry-digest run of the archive b-2.0.gem, finished, with the
\* archive on disk and the registry having answered a list of releases.
GemRunDone ==
    /\ v.cls = "GEMShaVerifier" /\ pc = "done" /\ gem.called
    /\ entry.arg \in {u_b20_gem, d_b20_gem}
    /\ d_b20_gem \in DOMAIN files

\* The releases of the answer that carry the archive's version.
GemReleasesOfVersion == SelectSeq(gem.resp.gems, LAMBDA g : g.number = V20)

\* C12: for a .gem package reached through from_url or from_disk, verify
\* returns True if and only if exactly one registry release has the
\* package's version and its digest equals the local SHA-256 digest; on a
\* digest mismatch it reports a failed result and returns False.
C12_GemVerifiedIffDigestMatches ==
    (GemRunDone /\ gem.resp.kind = "list") =>
        LET one == Len(GemReleasesOfVersion) = 1
            same == one /\ GemReleasesOfVersion[1].sha = calc_sha(files[d_b20_gem])
        IN /\ ret = "True" <=> same
           /\ (one /\ ~same) => (FailedResults # {} /\ ret = "False")

\* C13: the registry-digest strategy derives name and version from the
\* file name alone: for <name>-<version>.gem in any directory the registry
\* is queried for <name> and the release is selected by <version>.
C13_GemNameFromFileName ==
    GemRunDone =>
        /\ gem.queried
        /\ gem.name = <<"b">>
        /\ gem.number = V20

\* C14: when the registry lists zero or more than one release with the
\* package's version, the strategy ends with a 'version not found' outcome
\* that differs from the outcome of a digest mismatch.
C14_VersionNotFoundIsDistinct ==
    (GemRunDone /\ gem.resp.kind = "list" /\ Len(GemReleasesOfVersion) # 1) =>
        /\ raised = "none"
        /\ ret # "True"
        /\ \E l \in Range(out) :
              l.fn = "print_error" /\ l # print_result(v.url, FALSE, <<>>)

\* C15: a registry response that is not valid JSON or not a list of
\* release objects ends verify with a failed or indeterminate result; no
\* exception propagates to the caller.
C15_MalformedRegistryAnswerFails ==
    (GemRunDone /\ gem.resp.kind \in {"invalid_json", "object"}) =>
        /\ raised = "none"
        /\ ret # "True"
        /\ \E l \in Range(out) : l.fn = "print_error"

\* C16: when the caller supplies a detached signature file path
\* (from_disk(package_path, package_check)), the verification runs key-id
\* extraction and the signature engine on that supplied file.
C16_SuppliedSignatureUsed ==
    (InGPGVerify /\ entry.fn = "from_disk" /\ entry.check # None)
        => v.package_sign_path = entry.check

\* The canonical result lines of the current call, by position.
ResultLineCount == Cardinality({i \in 1..Len(out) : out[i].by = "print_result"})

Returned == entry.fn \in {"from_url", "from_disk"} /\ pc = "done" /\ raised = "none"

\* C17 as stated: every run of from_url or from_disk that returns prints
\* exactly one canonical result line, on every path including the
\* unknown extension.
C17_OneResultLinePerRun ==
    Returned => ResultLineCount = 1

\* C17 amended: a returning run that dispatched to the GPG strategy prints
\* exactly one canonical result line; a run with an unknown extension
\* prints a single 'not verifiable' line and no canonical result line.
C17_OneResultLinePerVerifierRun ==
    Returned =>
        /\ v.cls = "GPGVerifier" => ResultLineCount = 1
        /\ v.cls = "None" =>
              /\ ResultLineCount = 0
              /\ Len(out) = 1
              /\ out[1].by \in {"from_url", "from_disk"}

C17_Witness ==
    /\ Returned /\ v.cls = "GPGVerifier"
    /\ fetch.called /\ fetch.code = NoCode
    /\ Len(out) > 2
    /\ ResultLineCount = 1

EndsWith(s, suffix) ==
    Len(s) >= Len(suffix) /\ SubSeq(s, Len(s) - Len(suffix) + 1, Len(s)) = suffix

\* C18: when the local package file is absent, GPGVerifier.verify prints
\* one failed '<package> not found' result and returns without invoking
\* the fetcher, the key-id extractor or the engine and without creating
\* any file.
C18_MissingArtifactStopsVerify ==
    (InGPGVerify /\ pc # "verify" /\ v.package_path \notin DOMAIN pre)
        => /\ pc = "done" /\ raised = "none" /\ ret = "None"
           /\ ResultLineCount = 1
           /\ \E l \in FailedResults : EndsWith(l.msg, v.package_path \o <<" not found">>)
           /\ calls = <<>>
           /\ ~fetch.called
           /\ ~EngineInvoked
           /\ files = pre

C18_Witness ==
    /\ InGPGVerify /\ pc = "done"
    /\ entry.arg = d_b_gz
    /\ v.package_path \notin DOMAIN pre
    /\ FailedResults # {}

\* C19: the result line printed for a verification names the package that
\* was verified, for both entry points (from_url and from_disk).
C19_ResultLineNamesPackage ==
    InGPGVerify =>
        \A l \in FailedResults \cup SuccessResults :
            Find(l.msg, basename(v.package_path)) # -1

\* C20: across runs on the same package, key-id extraction is only reached
\* with a signature file that was on disk before the first run or was
\* written by a fetch that returned status 200; a failed fetch leaves no
\* file that a later run takes as signature material.
C20_SignatureMaterialIsGenuine ==
    (InGPGVerify /\ "get_keyid" \in Range(calls))
        => origin[v.package_sign_path] \in {"initial", "fetch_200"}

====
